---- MODULE Spec2Model ----
(***************************************************************************)
(* The editor store of the block editor (src/src/stores/editorStore.js)    *)
(* as a state machine: the flat block collection of the document, the      *)
(* active-block pointer, the Ctrl+A selection and the undo/redo stacks,    *)
(* with one action per store command and per caller that builds the block  *)
(* it hands to the store.                                                  *)
(*                                                                         *)
(* Ids produced by crypto.randomUUID() are the naturals 1, 2, ... handed   *)
(* out by the counter nextId.  Timestamps (createdAt, updatedAt, the       *)
(* snapshot timestamp) are left out: no command reads them.  Text is a     *)
(* sequence of characters.  Array indices are 0-based as in the source.    *)
(***************************************************************************)
EXTENDS Integers, Sequences, FiniteSets, TLC

\* ---------------------------------------------------------------- bounds
MaxOps == 3            \* number of commands in one run of Spec
MaxCallerOps == 4      \* ... of SpecCallers
MaxSelectionOps == 5   \* ... of SpecSelection
MaxIndentOps == 5      \* ... of SpecIndent
MaxConvertOps == 4     \* ... of SpecConvert
MaxNestedOps == 5      \* ... of SpecNested
MaxHistOps == 53       \* ... of SpecHist
MaxSaveOps == 7        \* ... of SpecAutoSave
MaxDocumentOps == 5    \* ... of SpecDocument
MaxBlocks == 3         \* commands that add blocks are disabled beyond this
MaxLines == 3          \* lines of a markdown text that is parsed
MaxPasses == 2         \* imports of one markdown text in a round trip
MaxRoundTripLines == 2 \* lines of a markdown text that makes the round trip
MaxChars == 4          \* characters of a paragraph of such a text

\* ------------------------------------------------------ program constants
maxHistorySize == 50
debounceMs == 1000   \* the delay of the auto-save timer
MaxIndent == 3
Null == -1           \* the JS value null
Undefined == -2      \* the JS value undefined / an absent key

PARAGRAPH == "paragraph"
TASK == "task"
DIVIDER == "divider"
COLUMNS == "columns"
TABS == "tabs"
HEADING_1 == "heading1"
HEADING_2 == "heading2"
HEADING_3 == "heading3"
QUOTE == "quote"

Text == <<"a", "b">>     \* a sample non-empty content
NoContent == <<>>        \* the empty string

VARIABLES
    documentId,        \* document.id
    blocks,            \* document.blocks
    activeBlockId,
    selectionLevel,
    selectedBlockIds,
    past,              \* history.past, oldest first
    future,            \* history.future, next redo first
    nextId,            \* the next value crypto.randomUUID() returns
    budget,            \* commands this run may still make
    lastOp,            \* the command that ran last, its target and argument,
                       \* whether it changed document.blocks, and the
                       \* selectionLevel it was called at
    cycleRun,          \* the current run of consecutive cycleSelection calls:
                       \* the level it started from and the calls made
    autoSave,          \* the auto-save logic: clock, document version,
                       \* pending timers, writes issued
    md                 \* the markdown service: the input handed to it and
                       \* what it returned

vars == <<documentId, blocks, activeBlockId, selectionLevel, selectedBlockIds,
          past, future, nextId, budget, lastOp, cycleRun, autoSave, md>>

\* what the editor store's commands work on
storeVars == <<documentId, blocks, activeBlockId, selectionLevel, selectedBlockIds,
               past, future, nextId, lastOp, cycleRun>>

\* ------------------------------------------------------------ JS helpers
MinOf(S) == CHOOSE x \in S : \A y \in S : x <= y

Max2(a, b) == IF a >= b THEN a ELSE b

Min2(a, b) == IF a <= b THEN a ELSE b

\* Array.prototype.splice(start, deleteCount, ...items), 0-based start
Splice(seq, start, deleteCount, items) ==
    LET len == Len(seq)
        s == IF start < 0 THEN Max2(len + start, 0) ELSE Min2(start, len)
        d == Min2(Max2(deleteCount, 0), len - s)
    IN SubSeq(seq, 1, s) \o items \o SubSeq(seq, s + d + 1, len)

\* String.prototype.slice(from, to)
Slice(str, from, to) ==
    LET len == Len(str)
        f == IF from < 0 THEN Max2(len + from, 0) ELSE Min2(from, len)
        t == IF to < 0 THEN Max2(len + to, 0) ELSE Min2(to, len)
    IN SubSeq(str, f + 1, t)

Truthy(id) == id # Null /\ id # Undefined

\* children of a block: absent, an array (createBlock's [] / column
\* entries) or a plain object (tab id -> block ids).  addBlockToTab writes
\* children[tabId] whatever children is, so an array can carry tab entries
\* as non-index properties.
NoChildren == [kind |-> "none", cols |-> <<>>, tabs |-> <<>>]

ArrayChildren == [kind |-> "array", cols |-> <<>>, tabs |-> <<>>]

ObjectChildren == [kind |-> "object", cols |-> <<>>, tabs |-> <<>>]

NoProps == <<>>

DEFAULT_BLOCK_PROPERTIES(type) ==
    CASE type = TASK -> [checked |-> FALSE]
      [] type = COLUMNS -> [count |-> 2, widths |-> <<50, 50>>, gap |-> 16]
      [] type = TABS -> [tabs |-> <<>>, activeTabId |-> Null]
      [] OTHER -> NoProps

createBlockProperties(type, uuid) ==
    IF type = TABS
    THEN [tabs |-> <<uuid>>, activeTabId |-> uuid]
    ELSE DEFAULT_BLOCK_PROPERTIES(type)

createBlock(uuid, type, content) ==
    [id |-> uuid, type |-> type, content |-> content,
     properties |-> DEFAULT_BLOCK_PROPERTIES(type),
     children |-> ArrayChildren,
     columnIndex |-> Undefined, parentTabId |-> Undefined]

\* the literal { id, type: PARAGRAPH, content: "", properties: {} }
PlainParagraph(uuid) ==
    [id |-> uuid, type |-> PARAGRAPH, content |-> NoContent,
     properties |-> NoProps, children |-> NoChildren,
     columnIndex |-> Undefined, parentTabId |-> Undefined]

findBlockIndex(bs, blockId) ==
    LET hits == {i \in 1..Len(bs) : bs[i].id = blockId}
    IN IF hits = {} THEN -1 ELSE MinOf(hits) - 1

splitBlockAtCursor_OffByOne(block, cursorPosition, uuid) ==
    LET contentBefore == Slice(block.content, 0, cursorPosition)
        contentAfter == Slice(block.content, cursorPosition + 1,
                              Len(block.content))
    IN << [block EXCEPT !.content = contentBefore],
          createBlock(uuid, PARAGRAPH, contentAfter) >>

splitBlockAtCursor(block, cursorPosition, uuid) ==
    LET contentBefore == Slice(block.content, 0, cursorPosition)
        contentAfter == Slice(block.content, cursorPosition, Len(block.content))
    IN << [block EXCEPT !.content = contentBefore],
          createBlock(uuid, PARAGRAPH, contentAfter) >>

mergeBlocks_Reversed(blockA, blockB) ==
    [blockA EXCEPT !.content = blockB.content \o blockA.content]

mergeBlocks(blockA, blockB) ==
    [blockA EXCEPT !.content = blockA.content \o blockB.content]

\* JSON.parse(JSON.stringify(blocks)): keys holding undefined stay absent,
\* an array is written as its indexed elements only, so tab entries kept
\* as properties of an array are not part of the copy.
JSONCloneChildren(ch) ==
    IF ch.kind = "array" THEN [ch EXCEPT !.tabs = <<>>] ELSE ch

JSONCloneBlock(b) ==
    [id |-> b.id, type |-> b.type, content |-> b.content,
     properties |-> b.properties,
     children |-> JSONCloneChildren(b.children),
     columnIndex |-> b.columnIndex, parentTabId |-> b.parentTabId]

JSONClone(bs) == [i \in 1..Len(bs) |-> JSONCloneBlock(bs[i])]

\* ------------------------------------------------------- the store state
State ==
    [documentId |-> documentId,
     blocks |-> blocks, activeBlockId |-> activeBlockId,
     selectionLevel |-> selectionLevel,
     selectedBlockIds |-> selectedBlockIds,
     past |-> past, future |-> future, nextId |-> nextId]

\* documentId is not part of the snapshot the store keeps: it records which
\* document was loaded when the snapshot was taken, and no command reads it
Snapshot(s) ==
    [blocks |-> JSONClone(s.blocks), activeBlockId |-> s.activeBlockId,
     documentId |-> s.documentId]

\* ---------------------------------------------------------------- history
saveToHistory_NoLimit(s) ==
    [s EXCEPT !.past = Append(s.past, Snapshot(s)), !.future = <<>>]

saveToHistory_OffByOne(s) ==
    LET pushed == Append(s.past, Snapshot(s))
        limited == IF Len(pushed) > maxHistorySize + 1 THEN Tail(pushed) ELSE pushed
    IN [s EXCEPT !.past = limited, !.future = <<>>]

saveToHistory(s) ==
    LET pushed == Append(s.past, Snapshot(s))
        limited == IF Len(pushed) > maxHistorySize THEN Tail(pushed) ELSE pushed
    IN [s EXCEPT !.past = limited, !.future = <<>>]

undo(s) ==
    IF Len(s.past) = 0 THEN s
    ELSE LET previousState == s.past[Len(s.past)]
         IN [s EXCEPT !.future = <<Snapshot(s)>> \o s.future,
                      !.past = SubSeq(s.past, 1, Len(s.past) - 1),
                      !.blocks = previousState.blocks,
                      !.activeBlockId = previousState.activeBlockId]

redo(s) ==
    IF Len(s.future) = 0 THEN s
    ELSE LET nextState == Head(s.future)
         IN [s EXCEPT !.past = Append(s.past, Snapshot(s)),
                      !.future = Tail(s.future),
                      !.blocks = nextState.blocks,
                      !.activeBlockId = nextState.activeBlockId]

\* -------------------------------------------------------------- selection
IsTopLevel(b) == b.columnIndex = Undefined /\ b.parentTabId = Undefined

IdsOf(bs) == [i \in 1..Len(bs) |-> bs[i].id]

Includes(seq, x) == \E i \in 1..Len(seq) : seq[i] = x

cycleSelection_AllBlocks(s) ==
    LET currentLevel == s.selectionLevel
    IN IF currentLevel = 0
       THEN [s EXCEPT !.selectionLevel = 1,
                      !.selectedBlockIds =
                          IF Truthy(s.activeBlockId)
                          THEN <<s.activeBlockId>> ELSE @]
       ELSE IF currentLevel = 1
       THEN [s EXCEPT !.selectionLevel = 2,
                      !.selectedBlockIds = IdsOf(s.blocks)]
       ELSE [s EXCEPT !.selectionLevel = 0, !.selectedBlockIds = <<>>]

cycleSelection(s) ==
    LET currentLevel == s.selectionLevel
        topLevelBlocks == SelectSeq(s.blocks, IsTopLevel)
    IN IF currentLevel = 0
       THEN [s EXCEPT !.selectionLevel = 1,
                      !.selectedBlockIds =
                          IF Truthy(s.activeBlockId)
                          THEN <<s.activeBlockId>> ELSE @]
       ELSE IF currentLevel = 1
       THEN [s EXCEPT !.selectionLevel = 2,
                      !.selectedBlockIds = IdsOf(topLevelBlocks)]
       ELSE [s EXCEPT !.selectionLevel = 0, !.selectedBlockIds = <<>>]

clearSelection_LevelOnly(s) ==
    [s EXCEPT !.selectionLevel = 0]

clearSelection(s) ==
    [s EXCEPT !.selectionLevel = 0, !.selectedBlockIds = <<>>]

deleteSelectedBlocks_ActiveKept(s) ==
    IF Len(s.selectedBlockIds) = 0 THEN s
    ELSE LET s1 == saveToHistory(s)
             NotSelected(b) == ~Includes(s1.selectedBlockIds, b.id)
             remaining == SelectSeq(s1.blocks, NotSelected)
             empty == Len(remaining) = 0
             result == IF empty THEN <<PlainParagraph(s1.nextId)>>
                       ELSE remaining
         IN [s1 EXCEPT !.blocks = result,
                       !.nextId = IF empty THEN @ + 1 ELSE @,
                       !.selectedBlockIds = <<>>,
                       !.selectionLevel = 0]

deleteSelectedBlocks(s) ==
    IF Len(s.selectedBlockIds) = 0 THEN s
    ELSE LET s1 == saveToHistory(s)
             NotSelected(b) == ~Includes(s1.selectedBlockIds, b.id)
             remaining == SelectSeq(s1.blocks, NotSelected)
             empty == Len(remaining) = 0
             result == IF empty THEN <<PlainParagraph(s1.nextId)>>
                       ELSE remaining
         IN [s1 EXCEPT !.blocks = result,
                       !.nextId = IF empty THEN @ + 1 ELSE @,
                       !.activeBlockId = result[1].id,
                       !.selectedBlockIds = <<>>,
                       !.selectionLevel = 0]

\* ---------------------------------------------------------- block actions
setActiveBlock_KeepSelection(s, blockId) ==
    [s EXCEPT !.activeBlockId = blockId]

setActiveBlock(s, blockId) ==
    IF s.selectionLevel > 0
    THEN [s EXCEPT !.activeBlockId = blockId,
                   !.selectionLevel = 0, !.selectedBlockIds = <<>>]
    ELSE [s EXCEPT !.activeBlockId = blockId]

addBlockAfter_Before(s, afterBlockId, newBlock) ==
    LET index == findBlockIndex(s.blocks, afterBlockId)
    IN [s EXCEPT !.blocks = IF index # -1
                            THEN Splice(@, index, 0, <<newBlock>>)
                            ELSE Append(@, newBlock),
                 !.activeBlockId = newBlock.id]

addBlockAfter(s, afterBlockId, newBlock) ==
    LET index == findBlockIndex(s.blocks, afterBlockId)
    IN [s EXCEPT !.blocks = IF index # -1
                            THEN Splice(@, index + 1, 0, <<newBlock>>)
                            ELSE Append(@, newBlock),
                 !.activeBlockId = newBlock.id]

updateBlockContent(s, blockId, content) ==
    LET index == findBlockIndex(s.blocks, blockId)
    IN IF index = -1 THEN s
       ELSE [s EXCEPT !.blocks[index + 1].content = content]

deleteBlock_NoPlaceholder(s, blockId) ==
    LET s1 == saveToHistory(s)
        index == findBlockIndex(s1.blocks, blockId)
        removed == Splice(s1.blocks, index, 1, <<>>)
    IN IF index = -1 THEN s1
       ELSE IF Len(removed) = 0
       THEN [s1 EXCEPT !.blocks = removed, !.activeBlockId = Null]
       ELSE [s1 EXCEPT !.blocks = removed,
                       !.activeBlockId = removed[Max2(0, index - 1) + 1].id]

deleteBlock_ActiveNext(s, blockId) ==
    LET s1 == saveToHistory(s)
        index == findBlockIndex(s1.blocks, blockId)
        removed == Splice(s1.blocks, index, 1, <<>>)
        newBlock == PlainParagraph(s1.nextId)
    IN IF index = -1 THEN s1
       ELSE IF Len(removed) = 0
       THEN [s1 EXCEPT !.blocks = <<newBlock>>,
                       !.nextId = @ + 1,
                       !.activeBlockId = newBlock.id]
       ELSE [s1 EXCEPT !.blocks = removed,
                       !.activeBlockId =
                           removed[Min2(index, Len(removed) - 1) + 1].id]

deleteBlock(s, blockId) ==
    LET s1 == saveToHistory(s)
        index == findBlockIndex(s1.blocks, blockId)
        removed == Splice(s1.blocks, index, 1, <<>>)
        newBlock == PlainParagraph(s1.nextId)
    IN IF index = -1 THEN s1
       ELSE IF Len(removed) = 0
       THEN [s1 EXCEPT !.blocks = <<newBlock>>,
                       !.nextId = @ + 1,
                       !.activeBlockId = newBlock.id]
       ELSE [s1 EXCEPT !.blocks = removed,
                       !.activeBlockId = removed[Max2(0, index - 1) + 1].id]

splitBlock(s, blockId, cursorPosition) ==
    LET s1 == saveToHistory(s)
        index == findBlockIndex(s1.blocks, blockId)
    IN IF index = -1 THEN s1
       ELSE LET pair == splitBlockAtCursor(s1.blocks[index + 1],
                                           cursorPosition, s1.nextId)
                blockBefore == pair[1]
                blockAfter == pair[2]
            IN [s1 EXCEPT !.blocks = Splice([@ EXCEPT ![index + 1] = blockBefore],
                                            index + 1, 0, <<blockAfter>>),
                          !.nextId = @ + 1,
                          !.activeBlockId = blockAfter.id]

mergeWithPreviousBlock(s, blockId) ==
    LET s1 == saveToHistory(s)
        index == findBlockIndex(s1.blocks, blockId)
    IN IF index > 0
       THEN LET currentBlock == s1.blocks[index + 1]
                previousBlock == s1.blocks[index]
                mergedBlock == mergeBlocks(previousBlock, currentBlock)
            IN [s1 EXCEPT !.blocks = Splice([@ EXCEPT ![index] = mergedBlock],
                                            index, 1, <<>>),
                          !.activeBlockId = mergedBlock.id]
       ELSE s1

\* the optional third argument of convertBlockType: NotGiven is the
\* default null, Given(c) the content c
NotGiven == <<>>

Given(c) == <<c>>

convertBlockType_DefaultsOnly(s, blockId, newType, newContent) ==
    LET s1 == saveToHistory(s)
        index == findBlockIndex(s1.blocks, blockId)
    IN IF index = -1 THEN s1
       ELSE [s1 EXCEPT !.blocks[index + 1] =
                           [@ EXCEPT !.type = newType,
                                     !.properties =
                                         DEFAULT_BLOCK_PROPERTIES(newType),
                                     !.content =
                                         IF newContent # NotGiven THEN newContent[1] ELSE @]]

convertBlockType(s, blockId, newType, newContent) ==
    LET s1 == saveToHistory(s)
        index == findBlockIndex(s1.blocks, blockId)
        factory == newType = TABS \/ newType = COLUMNS
    IN IF index = -1 THEN s1
       ELSE [s1 EXCEPT !.blocks[index + 1] =
                           [@ EXCEPT !.type = newType,
                                     !.properties =
                                         IF factory
                                         THEN createBlockProperties(newType, s1.nextId)
                                         ELSE DEFAULT_BLOCK_PROPERTIES(newType),
                                     !.content =
                                         IF newContent # NotGiven THEN newContent[1] ELSE @],
                       !.nextId = IF newType = TABS THEN @ + 1 ELSE @]

moveBlock_AdjustIndex(s, blockId, toIndex) ==
    LET s1 == saveToHistory(s)
        fromIndex == findBlockIndex(s1.blocks, blockId)
    IN IF fromIndex # -1 /\ fromIndex # toIndex
       THEN LET removed == s1.blocks[fromIndex + 1]
                rest == Splice(s1.blocks, fromIndex, 1, <<>>)
                at == IF fromIndex < toIndex THEN toIndex - 1 ELSE toIndex
            IN [s1 EXCEPT !.blocks = Splice(rest, at, 0, <<removed>>)]
       ELSE s1

moveBlock(s, blockId, toIndex) ==
    LET s1 == saveToHistory(s)
        fromIndex == findBlockIndex(s1.blocks, blockId)
    IN IF fromIndex # -1 /\ fromIndex # toIndex
       THEN LET removed == s1.blocks[fromIndex + 1]
                rest == Splice(s1.blocks, fromIndex, 1, <<>>)
            IN [s1 EXCEPT !.blocks = Splice(rest, toIndex, 0, <<removed>>)]
       ELSE s1

duplicateBlock(s, blockId) ==
    LET index == findBlockIndex(s.blocks, blockId)
    IN IF index = -1 THEN s
       ELSE LET duplicated == [s.blocks[index + 1] EXCEPT !.id = s.nextId]
            IN [s EXCEPT !.blocks = Splice(@, index + 1, 0, <<duplicated>>),
                         !.nextId = @ + 1,
                         !.activeBlockId = duplicated.id]

\* block.properties?.indent || 0
IndentOf(b) ==
    IF "indent" \in DOMAIN b.properties THEN b.properties.indent ELSE 0

indentBlock_NoClamp(s, blockId) ==
    LET index == findBlockIndex(s.blocks, blockId)
    IN IF index = -1 THEN s
       ELSE [s EXCEPT !.blocks[index + 1].properties =
                          [indent |-> IndentOf(s.blocks[index + 1]) + 1] @@ @]

indentBlock(s, blockId) ==
    LET index == findBlockIndex(s.blocks, blockId)
    IN IF index = -1 THEN s
       ELSE LET currentIndent == IndentOf(s.blocks[index + 1])
            IN IF currentIndent < MaxIndent
               THEN [s EXCEPT !.blocks[index + 1].properties =
                                  [indent |-> currentIndent + 1] @@ @]
               ELSE s

outdentBlock(s, blockId) ==
    LET index == findBlockIndex(s.blocks, blockId)
    IN IF index = -1 THEN s
       ELSE LET currentIndent == IndentOf(s.blocks[index + 1])
            IN IF currentIndent > 0
               THEN [s EXCEPT !.blocks[index + 1].properties =
                                  [indent |-> currentIndent - 1] @@ @]
               ELSE s

\* --------------------------------------------------- nested block actions
\* newBlockData is what ColumnsBlock / TabsBlock pass: { type, content }
NewBlockData == [type |-> PARAGRAPH, content |-> NoContent]

NestedBlock(uuid, newBlockData, columnIndex, tabId) ==
    [id |-> uuid, type |-> newBlockData.type, content |-> newBlockData.content,
     properties |-> NoProps, children |-> NoChildren,
     columnIndex |-> columnIndex, parentTabId |-> tabId]

\* children.find(c => c.columnIndex === columnIndex), 1-based, 0 if none
FindColumn(cols, columnIndex) ==
    LET hits == {i \in 1..Len(cols) : cols[i].columnIndex = columnIndex}
    IN IF hits = {} THEN 0 ELSE MinOf(hits)

\* position of the entry children[tabId], 0 if there is none
FindTab(tabs, tabId) ==
    LET hits == {i \in 1..Len(tabs) : tabs[i].tabId = tabId}
    IN IF hits = {} THEN 0 ELSE MinOf(hits)

addBlockToColumn(s, columnsBlockId, columnIndex, newBlockData) ==
    LET s1 == saveToHistory(s)
        index == findBlockIndex(s1.blocks, columnsBlockId)
    IN IF index = -1 THEN s1
       ELSE IF s1.blocks[index + 1].type # COLUMNS THEN s1
       ELSE LET block == s1.blocks[index + 1]
                children == IF block.children.kind = "none"
                            THEN ArrayChildren ELSE block.children
                newBlock == NestedBlock(s1.nextId, newBlockData,
                                        columnIndex, Undefined)
                found == FindColumn(children.cols, columnIndex)
                cols1 == IF found = 0
                         THEN Append(children.cols,
                                     [columnIndex |-> columnIndex, blocks |-> <<>>])
                         ELSE children.cols
                at == IF found = 0 THEN Len(cols1) ELSE found
                cols2 == [cols1 EXCEPT ![at].blocks = Append(@, newBlock.id)]
            IN IF children.kind = "object"
               \* children.find is not a function: the command throws
               \* after the snapshot and after the id was drawn
               THEN [s1 EXCEPT !.nextId = @ + 1]
               ELSE [s1 EXCEPT !.blocks =
                                   Append([@ EXCEPT ![index + 1].children =
                                               [children EXCEPT !.cols = cols2]],
                                          newBlock),
                               !.nextId = @ + 1,
                               !.activeBlockId = newBlock.id]

addBlockToTab(s, tabsBlockId, tabId, newBlockData) ==
    LET s1 == saveToHistory(s)
        index == findBlockIndex(s1.blocks, tabsBlockId)
    IN IF index = -1 THEN s1
       ELSE IF s1.blocks[index + 1].type # TABS THEN s1
       ELSE LET block == s1.blocks[index + 1]
                children == IF block.children.kind = "none"
                            THEN ObjectChildren ELSE block.children
                newBlock == NestedBlock(s1.nextId, newBlockData,
                                        Undefined, tabId)
                found == FindTab(children.tabs, tabId)
                tabs1 == IF found = 0
                         THEN Append(children.tabs,
                                     [tabId |-> tabId, blocks |-> <<>>])
                         ELSE children.tabs
                at == IF found = 0 THEN Len(tabs1) ELSE found
                tabs2 == [tabs1 EXCEPT ![at].blocks = Append(@, newBlock.id)]
            IN [s1 EXCEPT !.blocks =
                              Append([@ EXCEPT ![index + 1].children =
                                          [children EXCEPT !.tabs = tabs2]],
                                     newBlock),
                          !.nextId = @ + 1,
                          !.activeBlockId = newBlock.id]

insertBlocksAtPosition(s, afterBlockId, newBlocks) ==
    IF Len(newBlocks) = 0 THEN s
    ELSE LET index == IF Truthy(afterBlockId)
                      THEN findBlockIndex(s.blocks, afterBlockId)
                      ELSE Len(s.blocks) - 1
         IN [s EXCEPT !.blocks = IF index # -1
                                 THEN Splice(@, index + 1, 0, newBlocks)
                                 ELSE @ \o newBlocks,
                      !.activeBlockId = newBlocks[Len(newBlocks)].id]

\* ------------------------------------- callers that build the block
\* toolbar "insert divider": the literal carries no id
handleInsertDivider(s) ==
    IF Truthy(s.activeBlockId)
    THEN addBlockAfter(s, s.activeBlockId,
                       [id |-> Undefined, type |-> DIVIDER, content |-> NoContent,
                        properties |-> NoProps, children |-> NoChildren,
                        columnIndex |-> Undefined, parentTabId |-> Undefined])
    ELSE s

\* Ctrl+D in the canvas: looks the active block up among the top-level blocks
handleCtrlD(s) ==
    LET canvas == SelectSeq(s.blocks, IsTopLevel)
        index == findBlockIndex(canvas, s.activeBlockId)
    IN IF Truthy(s.activeBlockId) /\ index # -1
       THEN [addBlockAfter(s, s.activeBlockId,
                           [canvas[index + 1] EXCEPT !.id = s.nextId])
                EXCEPT !.nextId = @ + 1]
       ELSE s

\* Enter on a container / click below the last block: a new paragraph literal
handleNewParagraph(s, afterBlockId) ==
    [addBlockAfter(s, afterBlockId, PlainParagraph(s.nextId))
        EXCEPT !.nextId = @ + 1]

\* the parser's createBlock(type, content): { id, type, content, properties }
ParsedBlock(uuid, content) ==
    [id |-> uuid, type |-> PARAGRAPH, content |-> content,
     properties |-> NoProps, children |-> NoChildren,
     columnIndex |-> Undefined, parentTabId |-> Undefined]

\* paste of markdown text that parses to n paragraphs
handlePaste(s, n) ==
    [insertBlocksAtPosition(s, s.activeBlockId,
                            [i \in 1..n |-> ParsedBlock(s.nextId + i - 1, Text)])
        EXCEPT !.nextId = @ + n]

\* --------------------------------------------------------------- documents
\* createDocument(title): { id, title, blocks: [createBlock(PARAGRAPH, "")] };
\* uuid is the document's id, the block gets the next one
createDocument(uuid) ==
    [id |-> uuid, blocks |-> <<createBlock(uuid + 1, PARAGRAPH, NoContent)>>]

\* document.blocks[0]?.id || null
FirstBlockId(document) ==
    IF Len(document.blocks) > 0 /\ Truthy(document.blocks[1].id)
    THEN document.blocks[1].id
    ELSE Null

loadDocument_KeepActive(s, document) ==
    [s EXCEPT !.documentId = document.id,
              !.blocks = document.blocks]

loadDocument(s, document) ==
    [s EXCEPT !.documentId = document.id,
              !.blocks = document.blocks,
              !.activeBlockId = FirstBlockId(document)]

newDocument(s) ==
    LET document == createDocument(s.nextId)
    IN  [s EXCEPT !.documentId = document.id,
                  !.blocks = document.blocks,
                  !.activeBlockId = FirstBlockId(document),
                  !.nextId = @ + 2]

\* ---------------------------------------------------------------- actions
Commit(s2, op, id, arg) ==
    /\ documentId' = s2.documentId
    /\ blocks' = s2.blocks
    /\ activeBlockId' = s2.activeBlockId
    /\ selectionLevel' = s2.selectionLevel
    /\ selectedBlockIds' = s2.selectedBlockIds
    /\ past' = s2.past
    /\ future' = s2.future
    /\ nextId' = s2.nextId
    /\ budget' = budget - 1
    /\ lastOp' = [op |-> op, id |-> id, arg |-> arg,
                  changed |-> s2.blocks # blocks,
                  level |-> selectionLevel]
    /\ cycleRun' = IF op = "cycleSelection"
                   THEN [cycleRun EXCEPT !.calls = @ + 1]
                   ELSE [from |-> s2.selectionLevel, calls |-> 0]
    /\ UNCHANGED <<autoSave, md>>

BlockIds == {blocks[i].id : i \in 1..Len(blocks)}

\* ids a command can be addressed to: every block's id and one id that no
\* block has
Targets == BlockIds \cup {nextId}

CanGrow(n) == Len(blocks) + n <= MaxBlocks

TabIdsOf(b) ==
    IF "tabs" \in DOMAIN b.properties
    THEN {b.properties.tabs[i] : i \in 1..Len(b.properties.tabs)}
    ELSE {}

Undo ==
    /\ budget > 0
    /\ Commit(undo(State), "undo", Null, Null)

Redo ==
    /\ budget > 0
    /\ Commit(redo(State), "redo", Null, Null)

CycleSelection ==
    /\ budget > 0
    /\ Commit(cycleSelection(State), "cycleSelection", Null, Null)

ClearSelection ==
    /\ budget > 0
    /\ Commit(clearSelection(State), "clearSelection", Null, Null)

DeleteSelectedBlocks ==
    /\ budget > 0
    /\ Commit(deleteSelectedBlocks(State), "deleteSelectedBlocks", Null, Null)

SetActiveBlock ==
    /\ budget > 0
    /\ \E id \in BlockIds :
          Commit(setActiveBlock(State, id), "setActiveBlock", id, Null)

InsertDivider ==
    /\ budget > 0
    /\ CanGrow(1)
    /\ Commit(handleInsertDivider(State), "insertDivider", activeBlockId, Null)

CtrlD ==
    /\ budget > 0
    /\ CanGrow(1)
    /\ Commit(handleCtrlD(State), "ctrlD", activeBlockId, Null)

NewParagraph ==
    /\ budget > 0
    /\ CanGrow(1)
    /\ \E id \in BlockIds \cup {Null, nextId + 1} :
          Commit(handleNewParagraph(State, id), "newParagraph", id, Null)

Paste ==
    /\ budget > 0
    /\ \E n \in 1..2 :
          /\ CanGrow(n)
          /\ Commit(handlePaste(State, n), "paste", activeBlockId, n)

UpdateBlockContent ==
    /\ budget > 0
    /\ \E id \in Targets :
          Commit(updateBlockContent(State, id, Text), "updateBlockContent", id, Null)

DeleteBlock ==
    /\ budget > 0
    /\ \E id \in Targets :
          Commit(deleteBlock(State, id), "deleteBlock", id, Null)

SplitBlock ==
    /\ budget > 0
    /\ CanGrow(1)
    /\ \E id \in Targets, cursorPosition \in 0..Len(Text) :
          /\ \A i \in 1..Len(blocks) :
                blocks[i].id = id => cursorPosition <= Len(blocks[i].content)
          /\ Commit(splitBlock(State, id, cursorPosition),
                    "splitBlock", id, cursorPosition)

MergeWithPreviousBlock ==
    /\ budget > 0
    /\ \E id \in Targets :
          Commit(mergeWithPreviousBlock(State, id),
                 "mergeWithPreviousBlock", id, Null)

ConvertBlockType ==
    /\ budget > 0
    /\ \E id \in Targets, newType \in {TASK, COLUMNS, TABS},
          newContent \in {NotGiven} :
          Commit(convertBlockType(State, id, newType, newContent),
                 "convertBlockType", id, Null)

\* the contents convertBlockType is given as third argument: "" and "ab"
ContentChoices == <<NoContent, Text>>

\* convertBlockType(id, newType, newContent) with newContent given, as the
\* markdown shortcuts call it; lastOp.arg is the position of newContent in
\* ContentChoices
ConvertBlockTypeContent ==
    /\ budget > 0
    /\ \E id \in Targets, newType \in {TASK, COLUMNS, TABS},
          n \in 1..Len(ContentChoices) :
          Commit(convertBlockType(State, id, newType, Given(ContentChoices[n])),
                 "convertBlockType", id, n)

MoveBlock ==
    /\ budget > 0
    /\ \E id \in Targets, toIndex \in 0..(Len(blocks) - 1) :
          Commit(moveBlock(State, id, toIndex), "moveBlock", id, toIndex)

DuplicateBlock ==
    /\ budget > 0
    /\ CanGrow(1)
    /\ \E id \in Targets :
          Commit(duplicateBlock(State, id), "duplicateBlock", id, Null)

IndentBlock ==
    /\ budget > 0
    /\ \E id \in Targets :
          Commit(indentBlock(State, id), "indentBlock", id, Null)

OutdentBlock ==
    /\ budget > 0
    /\ \E id \in Targets :
          Commit(outdentBlock(State, id), "outdentBlock", id, Null)

AddBlockToColumn ==
    /\ budget > 0
    /\ CanGrow(1)
    /\ \E id \in Targets, columnIndex \in 0..1 :
          Commit(addBlockToColumn(State, id, columnIndex, NewBlockData),
                 "addBlockToColumn", id, columnIndex)

AddBlockToTab ==
    /\ budget > 0
    /\ CanGrow(1)
    /\ \E i \in 1..Len(blocks) :
          \E tabId \in TabIdsOf(blocks[i]) :
             Commit(addBlockToTab(State, blocks[i].id, tabId, NewBlockData),
                    "addBlockToTab", blocks[i].id, tabId)

\* the documents storage.getDocument can return: one or two paragraphs with
\* text, under ids of their own
StoredDocuments ==
    {[id |-> nextId,
      blocks |-> [i \in 1..n |-> createBlock(nextId + i, PARAGRAPH, Text)]] :
        n \in 1..2}

LoadDocument ==
    /\ budget > 0
    /\ \E document \in StoredDocuments :
          Commit([loadDocument(State, document)
                     EXCEPT !.nextId = @ + Len(document.blocks) + 1],
                 "loadDocument", document.id, Null)

NewDocument ==
    /\ budget > 0
    /\ Commit(newDocument(State), "newDocument", Null, Null)

\* -------------------------------------------------------------- auto-save
\* The debounce of useAutoSave (and of the effect in App.jsx, which sets
\* and clears its timer the same way).  The editor document is known by
\* its version: every change of the document object is a new version.  A
\* timer is [id, due, doc]: the document its callback has captured and the
\* time it fires at.  A write is a call of saveDocument.
AutoSaveStart(impl) ==
    \* after mount: the effect has run once for the first document
    [impl |-> impl, clock |-> 0, docVersion |-> 1, changedAt |-> <<0>>,
     timers |-> {[id |-> 1, due |-> debounceMs, doc |-> 1]},
     saveTimeoutRef |-> 1, nextTimer |-> 2,
     \* window.addEventListener("beforeunload") has run;
     \* document.addEventListener is not a function on the editor
     \* document the hook's parameter `document` names, so the
     \* visibilitychange listener is never registered
     listeners |-> IF impl = "useAutoSave" THEN {"beforeunload"} ELSE {},
     writes |-> <<>>, lastEvent |-> "mount", wasPending |-> FALSE]

clearTimeout_Nothing(timers, id) == timers

clearTimeout(timers, id) == {t \in timers : t.id # id}

\* setTimeout(callback capturing doc, ms); the id is kept in saveTimeoutRef
\* (useAutoSave) / in the effect's const timeout (App.jsx)
setTimeout(a, doc, ms) ==
    [a EXCEPT !.timers = @ \cup {[id |-> a.nextTimer, due |-> a.clock + ms,
                                  doc |-> doc]},
              !.saveTimeoutRef = a.nextTimer,
              !.nextTimer = @ + 1]

saveDocument(a, doc, by) ==
    [a EXCEPT !.writes = Append(@, [doc |-> doc, at |-> a.clock, by |-> by])]

debouncedSave(a) ==
    setTimeout([a EXCEPT !.timers = clearTimeout(@, a.saveTimeoutRef)],
               a.docVersion, debounceMs)

\* the cleanup the effect returned on its previous run
effectCleanup(a) ==
    [a EXCEPT !.timers = clearTimeout(@, a.saveTimeoutRef)]

\* the effect with dependency [document]: cleanup of the previous run, then
\* the body
documentEffect(a) ==
    IF a.impl = "useAutoSave"
    THEN debouncedSave(effectCleanup(a))
    ELSE setTimeout(effectCleanup(a), a.docVersion, debounceMs)

\* document.hidden, read from the hook's parameter `document`: the editor
\* document has no such key
HiddenOf(doc) == Undefined

handleVisibilityChange(a) ==
    IF Truthy(HiddenOf(a.docVersion))
    THEN saveDocument(a, a.docVersion, "visibilitychange")
    ELSE a

handleBeforeUnload(a) == saveDocument(a, a.docVersion, "beforeunload")

Stamp(a, event) ==
    [a EXCEPT !.lastEvent = event, !.wasPending = autoSave.timers # {}]

\* a store command has replaced the document object
DocumentChanged ==
    /\ budget > 0
    /\ budget' = budget - 1
    /\ autoSave' = Stamp(documentEffect(
                            [autoSave EXCEPT !.docVersion = @ + 1,
                                             !.changedAt = Append(@, autoSave.clock)]),
                         "change")
    /\ UNCHANGED <<storeVars, md>>

\* time passes; a timer fires no later than it is due
TimePasses ==
    /\ budget > 0
    /\ budget' = budget - 1
    /\ \E ms \in {400, 600, 1000} :
          /\ \A t \in autoSave.timers : autoSave.clock + ms <= t.due
          /\ autoSave' = Stamp([autoSave EXCEPT !.clock = @ + ms], "time")
    /\ UNCHANGED <<storeVars, md>>

TimerFires ==
    /\ budget > 0
    /\ budget' = budget - 1
    /\ \E t \in autoSave.timers :
          /\ t.due <= autoSave.clock
          /\ autoSave' = Stamp(saveDocument([autoSave EXCEPT !.timers = @ \ {t}],
                                            t.doc, "timer"),
                               "timer")
    /\ UNCHANGED <<storeVars, md>>

\* the page becomes hidden: the browser dispatches visibilitychange
PageHidden ==
    /\ budget > 0
    /\ budget' = budget - 1
    /\ autoSave' = Stamp(IF "visibilitychange" \in autoSave.listeners
                         THEN handleVisibilityChange(autoSave)
                         ELSE autoSave,
                         "hidden")
    /\ UNCHANGED <<storeVars, md>>

\* the page is about to close: the browser dispatches beforeunload
BeforeUnload ==
    /\ budget > 0
    /\ budget' = budget - 1
    /\ autoSave' = Stamp(IF "beforeunload" \in autoSave.listeners
                         THEN handleBeforeUnload(autoSave)
                         ELSE autoSave,
                         "unload")
    /\ UNCHANGED <<storeVars, md>>

\* ------------------------------------------------------- markdown service
\* A string is a sequence of atoms: a character, or an HTML tag such as
\* <code>.  A markdown text is [typeof, lines]: its lines in order, each
\* [kind, depth, text, checked, end] with end the number of newlines that
\* follow it (2: a blank line).  No lines at all is the empty string.
ImportedDocument == <<"Imported Document">>

Backtick == "[backtick]"   \* the character U+0060
Backslash == "\\"
Newline == "\n"

RECURSIVE Join(_, _)
Join(strs, sep) ==
    IF strs = <<>> THEN <<>>
    ELSE IF Len(strs) = 1 THEN strs[1]
    ELSE strs[1] \o sep \o Join(Tail(strs), sep)

\* str.trim() is the empty string
TrimIsEmpty(str) == \A i \in 1..Len(str) : str[i] \in {" ", Newline}

Line(kind, depth, text, checked) ==
    [kind |-> kind, depth |-> depth, text |-> text, checked |-> checked,
     end |-> 2]

\* marked's inline lexer on the characters a text is made of here: a
\* backslash before a backtick or a backslash is an escape token, a run of n
\* backticks opens a code span that the next run of exactly n backticks
\* closes, everything else is text
RECURSIVE BacktickRun(_, _)
BacktickRun(src, i) ==
    IF i <= Len(src) /\ src[i] = Backtick THEN 1 + BacktickRun(src, i + 1) ELSE 0

CodeSpanEnds(src, n) ==
    {k \in (n + 2)..Len(src) :
        src[k] = Backtick /\ src[k - 1] # Backtick /\ BacktickRun(src, k) = n}

RECURSIVE inlineTokens(_)
inlineTokens(src) ==
    IF src = <<>> THEN <<>>
    ELSE IF src[1] = Backslash /\ Len(src) >= 2 /\ src[2] \in {Backtick, Backslash}
    THEN <<[type |-> "escape", text |-> <<src[2]>>]>>
         \o inlineTokens(SubSeq(src, 3, Len(src)))
    ELSE IF src[1] = Backtick
    THEN LET n == BacktickRun(src, 1)
             ends == CodeSpanEnds(src, n)
         IN  IF ends # {}
             THEN LET k == MinOf(ends)
                  IN  <<[type |-> "codespan",
                         text |-> [i \in 1..(k - n - 1) |->
                                     IF src[n + i] = Newline THEN " "
                                     ELSE src[n + i]]]>>
                      \o inlineTokens(SubSeq(src, k + n, Len(src)))
             ELSE <<[type |-> "text", text |-> SubSeq(src, 1, n)]>>
                  \o inlineTokens(SubSeq(src, n + 1, Len(src)))
    ELSE <<[type |-> "text", text |-> <<src[1]>>]>> \o inlineTokens(Tail(src))

\* a marked block token: the fields the service reads
Token(type) ==
    [type |-> type, depth |-> 0, text |-> <<>>, raw |-> <<>>,
     tokens |-> <<>>, items |-> <<>>, ordered |-> FALSE]

TextToken(type, text) ==
    [Token(type) EXCEPT !.text = text, !.raw = text,
                        !.tokens = inlineTokens(text)]

ListItem(line, text) ==
    [task |-> line.kind = "task", checked |-> line.checked,
     tokens |-> <<TextToken("text", text)>>]

\* marked.lexer(normalized) on lines that each are one block: consecutive
\* list lines are the items of one list; a paragraph line right under a list
\* line (no blank line between) continues that item
RECURSIVE lexerFrom(_, _, _)
lexerFrom(lines, i, tokens) ==
    IF i > Len(lines) THEN tokens
    ELSE LET line == lines[i]
             n == Len(tokens)
             inList == i > 1 /\ lines[i - 1].kind \in {"task", "bullet"}
                             /\ n > 0 /\ tokens[n].type = "list"
             lastItem == tokens[n].items[Len(tokens[n].items)]
         IN  CASE line.kind \in {"task", "bullet"} ->
                    IF inList
                    THEN lexerFrom(lines, i + 1,
                            [tokens EXCEPT ![n].items =
                                Append(@, ListItem(line, line.text))])
                    ELSE lexerFrom(lines, i + 1,
                            Append(tokens,
                                   [Token("list") EXCEPT !.items =
                                       <<ListItem(line, line.text)>>]))
               [] line.kind = "paragraph" /\ inList /\ lines[i - 1].end = 1 ->
                    lexerFrom(lines, i + 1,
                        [tokens EXCEPT ![n].items[Len(tokens[n].items)].tokens =
                            <<TextToken("text",
                                        lastItem.tokens[1].text
                                        \o <<Newline>> \o line.text)>>])
               [] line.kind = "heading" ->
                    lexerFrom(lines, i + 1,
                        Append(tokens, [TextToken("heading", line.text)
                                           EXCEPT !.depth = line.depth]))
               [] line.kind = "paragraph" ->
                    lexerFrom(lines, i + 1,
                        Append(tokens, TextToken("paragraph", line.text)))
               [] line.kind = "quote" ->
                    lexerFrom(lines, i + 1,
                        Append(tokens,
                               [Token("blockquote") EXCEPT
                                   !.raw = line.text,
                                   !.tokens = <<TextToken("paragraph", line.text)>>]))
               [] line.kind = "hr" ->
                    lexerFrom(lines, i + 1, Append(tokens, Token("hr")))
               [] OTHER ->   \* blank lines: a space token at the start of the
                             \* text, nothing between two blocks
                    lexerFrom(lines, i + 1,
                        IF i = 1
                        THEN Append(tokens,
                                    [Token("space") EXCEPT !.raw = <<Newline>>])
                        ELSE tokens)

lexer(lines) == lexerFrom(lines, 1, <<>>)

\* the parser's createBlock(type, content = "", properties = {})
parserCreateBlock(uuid, type, content, properties) ==
    [id |-> uuid, type |-> type, content |-> content, properties |-> properties]

parseInlineTokens(tokens) ==
    Join([i \in 1..Len(tokens) |->
            CASE tokens[i].type = "codespan" ->
                    <<"<code>">> \o tokens[i].text \o <<"</code>">>
              [] tokens[i].type = "br" -> <<"<br>">>
              [] OTHER -> tokens[i].text],
         <<>>)

headingTypes(depth) ==
    CASE depth = 1 -> HEADING_1
      [] depth = 2 -> HEADING_2
      [] OTHER -> HEADING_3

\* the text of a list item: its text and paragraph tokens
itemContent(item) ==
    LET ts == SelectSeq(item.tokens,
                        LAMBDA t : t.type = "text" \/ t.type = "paragraph")
    IN  Join([i \in 1..Len(ts) |-> parseInlineTokens(ts[i].tokens)], <<>>)

\* the blocks tokenToBlocks pushes for one token; uuid is the first id
tokenToBlocks(token, uuid) ==
    CASE token.type = "heading" ->
            <<parserCreateBlock(uuid, headingTypes(token.depth),
                                parseInlineTokens(token.tokens), <<>>)>>
      [] token.type = "paragraph" ->
            <<parserCreateBlock(uuid, PARAGRAPH,
                                parseInlineTokens(token.tokens), <<>>)>>
      [] token.type = "blockquote" ->
            <<parserCreateBlock(uuid, QUOTE,
                Join([i \in 1..Len(token.tokens) |->
                        IF token.tokens[i].type = "paragraph"
                        THEN parseInlineTokens(token.tokens[i].tokens)
                        ELSE token.tokens[i].raw],
                     <<Newline>>),
                <<>>)>>
      [] token.type = "list" ->
            [i \in 1..Len(token.items) |->
                IF token.items[i].task
                THEN parserCreateBlock(uuid + i - 1, TASK,
                                       itemContent(token.items[i]),
                                       <<<<"checked", token.items[i].checked>>>>)
                ELSE parserCreateBlock(uuid + i - 1, PARAGRAPH,
                                       <<IF token.ordered THEN "1. " ELSE "â€¢ ">>
                                       \o itemContent(token.items[i]),
                                       <<>>)]
      [] token.type = "hr" ->
            <<parserCreateBlock(uuid, DIVIDER, <<>>, <<>>)>>
      [] token.type = "html" ->
            IF ~TrimIsEmpty(token.text)
            THEN <<parserCreateBlock(uuid, PARAGRAPH, token.text, <<>>)>>
            ELSE <<>>
      [] token.type = "space" -> <<>>
      [] OTHER ->
            IF token.raw # <<>> /\ ~TrimIsEmpty(token.raw)
            THEN <<parserCreateBlock(uuid, PARAGRAPH, token.raw, <<>>)>>
            ELSE <<>>

isTitleToken_EveryHeading1(token, foundTitle) ==
    token.type = "heading" /\ token.depth = 1

\* the first H1 becomes the document title
isTitleToken(token, foundTitle) ==
    ~foundTitle /\ token.type = "heading" /\ token.depth = 1

\* the loop over the tokens
RECURSIVE parseTokens(_, _, _, _)
parseTokens(tokens, pblocks, title, foundTitle) ==
    IF tokens = <<>> THEN [title |-> title, blocks |-> pblocks]
    ELSE IF isTitleToken(Head(tokens), foundTitle)
    THEN parseTokens(Tail(tokens), pblocks, Head(tokens).text, TRUE)
    ELSE parseTokens(Tail(tokens),
                     pblocks \o tokenToBlocks(Head(tokens), Len(pblocks) + 1),
                     title, foundTitle)

\* uuidv4() hands out 1, 2, ... within one call
parseMarkdown(markdown) ==
    IF markdown.lines = <<>> \/ markdown.typeof # "string"
    THEN [id |-> 2, title |-> ImportedDocument,
          blocks |-> <<parserCreateBlock(1, PARAGRAPH, <<>>, <<>>)>>]
    ELSE LET r == parseTokens(lexer(markdown.lines), <<>>,
                              ImportedDocument, FALSE)
             bs == IF Len(r.blocks) = 0
                   THEN <<parserCreateBlock(1, PARAGRAPH, <<>>, <<>>)>>
                   ELSE r.blocks
         IN  [id |-> Len(bs) + 1, title |-> r.title, blocks |-> bs]

\* the text parsed is the input, or the text exported last
ParseMarkdown ==
    /\ md.input # <<>>
    /\ Len(md.parsed) = Len(md.exported)
    /\ Len(md.parsed) < MaxPasses
    /\ md' = [md EXCEPT !.parsed =
                 Append(@, parseMarkdown(IF md.exported = <<>>
                                         THEN md.input[1]
                                         ELSE md.exported[Len(md.exported)]))]
    /\ UNCHANGED <<storeVars, autoSave, budget>>

\* htmlToMarkdown on the atoms a content is made of here: <br> becomes a
\* newline and every tag that is left is removed
htmlToMarkdown(html) ==
    SelectSeq([i \in 1..Len(html) |->
                  IF html[i] = "<br>" THEN Newline ELSE html[i]],
              LAMBDA c : c \notin {"<code>", "</code>", "<br>"})

\* the text serializeBlock returns, as lines; "\n" alone is a line of kind
\* "newline".  No block made by the parser has an indent.
serializeBlock(block) ==
    LET content == htmlToMarkdown(block.content)
    IN  CASE block.type = PARAGRAPH ->
                IF content # <<>>
                THEN <<Line("paragraph", 0, content, FALSE)>>
                ELSE <<[Line("newline", 0, <<>>, FALSE) EXCEPT !.end = 1]>>
          [] block.type = HEADING_1 -> <<Line("heading", 1, content, FALSE)>>
          [] block.type = HEADING_2 -> <<Line("heading", 2, content, FALSE)>>
          [] block.type = HEADING_3 -> <<Line("heading", 3, content, FALSE)>>
          [] block.type = TASK ->
                <<[Line("task", 0, content,
                        block.properties = <<<<"checked", TRUE>>>>)
                      EXCEPT !.end = 1]>>
          [] block.type = QUOTE -> <<Line("quote", 0, content, FALSE)>>
          [] block.type = DIVIDER -> <<Line("hr", 0, <<>>, FALSE)>>
          [] OTHER ->
                IF content # <<>>
                THEN <<Line("paragraph", 0, content, FALSE)>>
                ELSE <<>>

\* replace(/\n{3,}/g, "\n\n") and trim() + "\n" on the lines: a newline of
\* its own lengthens the end of the line before it, up to a blank line, and
\* is dropped at the start of the text; the last line ends in one newline
RECURSIVE cleanUp(_, _)
cleanUp(chunks, lines) ==
    IF chunks = <<>>
    THEN IF lines = <<>> THEN lines
         ELSE [lines EXCEPT ![Len(lines)].end = 1]
    ELSE IF Head(chunks).kind = "newline"
    THEN cleanUp(Tail(chunks),
                 IF lines = <<>> THEN lines
                 ELSE [lines EXCEPT ![Len(lines)].end = 2])
    ELSE cleanUp(Tail(chunks), Append(lines, Head(chunks)))

RECURSIVE serializeBlocks(_)
serializeBlocks(bs) ==
    IF bs = <<>> THEN <<>>
    ELSE serializeBlock(Head(bs)) \o serializeBlocks(Tail(bs))

serializeDocument(document) ==
    [typeof |-> "string",
     lines |-> cleanUp((IF document.title # <<>>
                        THEN <<Line("heading", 1, document.title, FALSE)>>
                        ELSE <<>>)
                       \o serializeBlocks(document.blocks),
                       <<>>)]

SerializeDocument ==
    /\ Len(md.parsed) = Len(md.exported) + 1
    /\ md' = [md EXCEPT !.exported =
                 Append(@, serializeDocument(md.parsed[Len(md.parsed)]))]
    /\ UNCHANGED <<storeVars, autoSave, budget>>

\* the store right after construction: createDocument("Untitled")
InitStore ==
    /\ documentId = 0
    /\ blocks = <<createBlock(1, PARAGRAPH, NoContent)>>
    /\ activeBlockId = Null
    /\ selectionLevel = 0
    /\ selectedBlockIds = <<>>
    /\ past = <<>>
    /\ future = <<>>
    /\ nextId = 2
    /\ lastOp = [op |-> "init", id |-> Null, arg |-> Null, changed |-> FALSE,
                 level |-> 0]
    /\ cycleRun = [from |-> 0, calls |-> 0]

\* the auto-save is mounted and idle while the store's commands are checked
IdleAutoSave == autoSave = AutoSaveStart("App")

\* the markdown service has not been called
IdleMarkdown == md = [input |-> <<>>, parsed |-> <<>>, exported |-> <<>>]

InitEditor ==
    /\ InitStore
    /\ IdleAutoSave
    /\ IdleMarkdown

Init ==
    /\ InitEditor
    /\ budget = MaxOps

Next ==
    \/ Undo
    \/ Redo
    \/ CycleSelection
    \/ ClearSelection
    \/ DeleteSelectedBlocks
    \/ SetActiveBlock
    \/ InsertDivider
    \/ CtrlD
    \/ NewParagraph
    \/ Paste
    \/ UpdateBlockContent
    \/ DeleteBlock
    \/ SplitBlock
    \/ MergeWithPreviousBlock
    \/ ConvertBlockType
    \/ MoveBlock
    \/ DuplicateBlock
    \/ IndentBlock
    \/ OutdentBlock
    \/ AddBlockToColumn
    \/ AddBlockToTab

Spec == Init /\ [][Next]_vars

\* ------------------------------------------------------------------------
\* Longer runs of fewer commands.

\* the toolbar and keyboard handlers of the editor that insert blocks
InitCallers ==
    /\ InitEditor
    /\ budget = MaxCallerOps

NextCallers ==
    \/ SetActiveBlock
    \/ InsertDivider
    \/ CtrlD
    \/ NewParagraph
    \/ Paste
    \/ DuplicateBlock
    \/ DeleteBlock
    \/ Undo
    \/ Redo

SpecCallers == InitCallers /\ [][NextCallers]_vars

\* Ctrl+A selection on documents with nested blocks
InitSelection ==
    /\ InitEditor
    /\ budget = MaxSelectionOps

NextSelection ==
    \/ CycleSelection
    \/ ClearSelection
    \/ SetActiveBlock
    \/ DeleteSelectedBlocks
    \/ ConvertBlockType
    \/ AddBlockToColumn
    \/ AddBlockToTab
    \/ NewParagraph

SpecSelection == InitSelection /\ [][NextSelection]_vars

\* Tab / Shift+Tab among the commands that copy or reset properties
InitIndent ==
    /\ InitEditor
    /\ budget = MaxIndentOps

NextIndent ==
    \/ IndentBlock
    \/ OutdentBlock
    \/ DuplicateBlock
    \/ SplitBlock
    \/ ConvertBlockType
    \/ Undo
    \/ Redo

SpecIndent == InitIndent /\ [][NextIndent]_vars

\* type conversion with and without a new content
InitConvert ==
    /\ InitEditor
    /\ budget = MaxConvertOps

NextConvert ==
    \/ ConvertBlockType
    \/ ConvertBlockTypeContent
    \/ UpdateBlockContent
    \/ NewParagraph
    \/ Undo

SpecConvert == InitConvert /\ [][NextConvert]_vars

\* containers: blocks converted to tabs and columns and filled
InitNested ==
    /\ InitEditor
    /\ budget = MaxNestedOps

NextNested ==
    \/ ConvertBlockType
    \/ AddBlockToColumn
    \/ AddBlockToTab
    \/ DeleteBlock
    \/ Undo

SpecNested == InitNested /\ [][NextNested]_vars

\* documents are loaded and created between the commands that move the
\* active block, select, delete and undo
InitDocument ==
    /\ InitEditor
    /\ budget = MaxDocumentOps

NextDocument ==
    \/ LoadDocument
    \/ NewDocument
    \/ SetActiveBlock
    \/ NewParagraph
    \/ Paste
    \/ DeleteBlock
    \/ MergeWithPreviousBlock
    \/ CycleSelection
    \/ DeleteSelectedBlocks
    \/ Undo
    \/ Redo

SpecDocument == InitDocument /\ [][NextDocument]_vars

\* auto-save: document changes, time, timers and page events
InitAutoSave ==
    /\ InitStore
    /\ autoSave \in {AutoSaveStart(impl) : impl \in {"App", "useAutoSave"}}
    /\ IdleMarkdown
    /\ budget = MaxSaveOps

NextAutoSave ==
    \/ DocumentChanged
    \/ TimePasses
    \/ TimerFires
    \/ PageHidden
    \/ BeforeUnload

SpecAutoSave == InitAutoSave /\ [][NextAutoSave]_vars

\* parseMarkdown on the markdown texts of up to MaxLines lines
ParseLines ==
    {Line("heading", 1, <<"a">>, FALSE), Line("heading", 1, <<"b">>, FALSE),
     Line("heading", 2, <<"a">>, FALSE), Line("heading", 4, <<"a">>, FALSE),
     Line("paragraph", 0, <<"a">>, FALSE), Line("task", 0, <<"a">>, TRUE),
     Line("bullet", 0, <<"a">>, FALSE), Line("quote", 0, <<"a">>, FALSE),
     Line("hr", 0, <<>>, FALSE), Line("blank", 0, <<>>, FALSE)}

ParseInputs ==
    {[typeof |-> "undefined", lines |-> <<>>]}
    \cup {[typeof |-> "string", lines |-> ls] :
             ls \in UNION {[1..k -> ParseLines] : k \in 0..MaxLines}}

InitParse ==
    /\ InitStore
    /\ IdleAutoSave
    /\ budget = 0
    /\ md \in {[input |-> <<m>>, parsed |-> <<>>, exported |-> <<>>] :
                  m \in ParseInputs}

NextParse == ParseMarkdown

SpecParse == InitParse /\ [][NextParse]_vars

\* import and export in turn, from texts of up to MaxRoundTripLines lines:
\* paragraphs of up to MaxChars characters, headings and quotes of up to one
\* character, rules; every line is followed by a blank line
Chars == {"a", Backtick, Backslash}

Texts(min, max) == UNION {[1..k -> Chars] : k \in min..max}

RoundTripLines ==
    {Line("paragraph", 0, t, FALSE) : t \in Texts(1, MaxChars)}
    \cup {Line("heading", d, t, FALSE) : d \in {1, 2}, t \in Texts(0, 1)}
    \cup {Line("quote", 0, t, FALSE) : t \in Texts(0, 1)}
    \cup {Line("hr", 0, <<>>, FALSE)}

InitRoundTrip ==
    /\ InitStore
    /\ IdleAutoSave
    /\ budget = 0
    /\ md \in {[input |-> <<[typeof |-> "string", lines |-> ls]>>,
                 parsed |-> <<>>, exported |-> <<>>] :
                  ls \in UNION {[1..k -> RoundTripLines] :
                                   k \in 1..MaxRoundTripLines}}

NextRoundTrip ==
    \/ ParseMarkdown
    \/ SerializeDocument

SpecRoundTrip == InitRoundTrip /\ [][NextRoundTrip]_vars

\* the history stacks filled up: the one block is converted back and forth
\* between task and divider, with undo and redo in between
HistConvert ==
    /\ budget > 0
    /\ \E newType \in {TASK, DIVIDER} :
          /\ blocks[1].type # newType
          /\ Commit(convertBlockType(State, blocks[1].id, newType, NotGiven),
                    "convertBlockType", blocks[1].id, Null)

InitHist ==
    /\ InitEditor
    /\ budget = MaxHistOps

NextHist ==
    \/ HistConvert
    \/ Undo
    \/ Redo

SpecHist == InitHist /\ [][NextHist]_vars

\* ==========================================================================
\* Properties
\* ==========================================================================
IdsIn(bs) == {bs[i].id : i \in 1..Len(bs)}

\* bs without its element at 1-based position k
Without(bs, k) == [i \in 1..(Len(bs) - 1) |-> IF i < k THEN bs[i] ELSE bs[i + 1]]

\* 1-based position of the first block with this id (0 if none)
PosOf(bs, id) ==
    IF \E i \in 1..Len(bs) : bs[i].id = id
    THEN CHOOSE i \in 1..Len(bs) :
            /\ bs[i].id = id
            /\ \A j \in 1..(i - 1) : bs[j].id # id
    ELSE 0

IsEmptyParagraph(b) ==
    /\ b.type = PARAGRAPH
    /\ b.content = NoContent
    /\ b.properties = NoProps

\* C1: after any sequence of editor-store commands applied to a freshly
\* created document, document.blocks holds at least one block.
C1_NonEmptyDocument == Len(blocks) >= 1

\* deleteBlock has removed the only block of the document and the
\* placeholder paragraph took its place
C1_Witness ==
    /\ lastOp.op = "deleteBlock"
    /\ lastOp.changed
    /\ Len(past) > 0
    /\ Len(past[Len(past)].blocks) = 1
    /\ Len(blocks) = 1
    /\ blocks[1].id # past[Len(past)].blocks[1].id

\* C2: after any sequence of editor commands, including the callers that
\* build the inserted block themselves (toolbar insert-divider, Ctrl+D,
\* paste), no two blocks of document.blocks have the same id.
C2_UniqueIds ==
    \A i, j \in 1..Len(blocks) : i # j => blocks[i].id # blocks[j].id

\* C3: in any reachable state undo() followed by redo() leaves
\* document.blocks and activeBlockId as they were before the undo, whether
\* or not past was empty; redo() with an empty future changes neither the
\* blocks, the active block nor the history stacks.
C3_UndoRedoRestores ==
    LET r == redo(undo(State))
    IN /\ r.blocks = blocks
       /\ r.activeBlockId = activeBlockId
       /\ Len(future) = 0 =>
             /\ redo(State).blocks = blocks
             /\ redo(State).activeBlockId = activeBlockId
             /\ redo(State).past = past
             /\ redo(State).future = future

SnapshotCommands ==
    {"deleteBlock", "splitBlock", "mergeWithPreviousBlock", "convertBlockType",
     "moveBlock", "addBlockToColumn", "addBlockToTab", "deleteSelectedBlocks"}

\* the command of this step has called saveToHistory
SavedSnapshot ==
    /\ lastOp'.op \in SnapshotCommands
    /\ lastOp'.op = "deleteSelectedBlocks" => Len(selectedBlockIds) > 0

\* C4: for every command that saves a history snapshot, undo() right after
\* the command restores document.blocks and activeBlockId to their values
\* just before the command, and the post-command state is then the first
\* element of future.
C4_UndoRestoresPreState ==
    [][SavedSnapshot =>
          LET r == undo([documentId |-> documentId',
                         blocks |-> blocks', activeBlockId |-> activeBlockId',
                         selectionLevel |-> selectionLevel',
                         selectedBlockIds |-> selectedBlockIds',
                         past |-> past', future |-> future',
                         nextId |-> nextId'])
          IN /\ r.blocks = blocks
             /\ r.activeBlockId = activeBlockId
             /\ Len(r.future) > 0
             /\ r.future[1].blocks = blocks'
             /\ r.future[1].activeBlockId = activeBlockId']_vars

\* the ids of the blocks without columnIndex and parentTabId, in document
\* order
TopLevelIdsInOrder(bs) ==
    LET top == {i \in 1..Len(bs) :
                   bs[i].columnIndex = Undefined /\ bs[i].parentTabId = Undefined}
        kth(k) == CHOOSE i \in top : Cardinality({j \in top : j <= i}) = k
    IN [k \in 1..Cardinality(top) |-> bs[kth(k)].id]

C6_DeleteBlockEffect ==
    [][(lastOp'.op = "deleteBlock" /\ lastOp'.id \in IdsIn(blocks)) =>
          LET k == PosOf(blocks, lastOp'.id)
          IN IF Len(blocks) = 1
             THEN /\ Len(blocks') = 1
                  /\ IsEmptyParagraph(blocks'[1])
                  /\ blocks'[1].id \notin IdsIn(blocks)
                  /\ activeBlockId' = blocks'[1].id
             ELSE /\ blocks' = Without(blocks, k)
                  /\ activeBlockId' = IF k = 1 THEN blocks'[1].id
                                      ELSE blocks[k - 1].id]_vars

\* a block that was not the first of several has been deleted
C6_Witness ==
    /\ lastOp.op = "deleteBlock"
    /\ Len(past) > 0
    /\ PosOf(past[Len(past)].blocks, lastOp.id) >= 2
    /\ Len(blocks) = Len(past[Len(past)].blocks) - 1
    /\ activeBlockId =
          past[Len(past)].blocks[PosOf(past[Len(past)].blocks, lastOp.id) - 1].id

\* C7: splitBlock(id, offset) on an existing block with content c and
\* 0 <= offset <= len(c) replaces it by two adjacent blocks: the first
\* keeps id, type and properties with content c[0:offset]; the second has a
\* fresh id and content c[offset:], directly follows the first and becomes
\* active; the block count grows by exactly one.
C7_SplitBlockEffect ==
    [][(/\ lastOp'.op = "splitBlock"
        /\ lastOp'.id \in IdsIn(blocks)
        /\ lastOp'.arg >= 0
        /\ lastOp'.arg <= Len(blocks[PosOf(blocks, lastOp'.id)].content)) =>
          LET k == PosOf(blocks, lastOp'.id)
              c == blocks[k].content
              offset == lastOp'.arg
          IN /\ Len(blocks') = Len(blocks) + 1
             /\ \A i \in 1..(k - 1) : blocks'[i] = blocks[i]
             /\ \A i \in (k + 1)..Len(blocks) : blocks'[i + 1] = blocks[i]
             /\ blocks'[k].id = blocks[k].id
             /\ blocks'[k].type = blocks[k].type
             /\ blocks'[k].properties = blocks[k].properties
             /\ Len(blocks'[k].content) = offset
             /\ blocks'[k].content \o blocks'[k + 1].content = c
             /\ blocks'[k + 1].id \notin IdsIn(blocks)
             /\ blocks'[k + 1].id = nextId
             /\ activeBlockId' = blocks'[k + 1].id]_vars

\* a block holding "ab" has been split in the middle
C7_Witness ==
    /\ lastOp.op = "splitBlock"
    /\ lastOp.arg = 1
    /\ \E k \in 1..(Len(blocks) - 1) :
          /\ blocks[k].id = lastOp.id
          /\ blocks[k].content = <<"a">>
          /\ blocks[k + 1].content = <<"b">>
          /\ activeBlockId = blocks[k + 1].id

\* C8: after the store command splitBlock(id, offset) the new second block
\* has type task when the source block was a task, and type paragraph for
\* every other source type.
C8_SplitInheritsTask ==
    [][(lastOp'.op = "splitBlock" /\ lastOp'.id \in IdsIn(blocks)) =>
          LET k == PosOf(blocks, lastOp'.id)
          IN blocks'[k + 1].type =
                IF blocks[k].type = TASK THEN TASK ELSE PARAGRAPH]_vars

\* properties.indent, read as 0 when absent
IndentProp(b) ==
    IF "indent" \in DOMAIN b.properties THEN b.properties.indent ELSE 0

IndentAt(bs, id) == IndentProp(bs[PosOf(bs, id)])

\* C9: for every block, under any interleaving of indentBlock and
\* outdentBlock, properties.indent (0 when absent) stays within 0..3;
\* indentBlock at 3 and outdentBlock at 0 leave the block unchanged, and
\* otherwise each call changes indent by exactly one.
C9_IndentClamped ==
    /\ [](\A i \in 1..Len(blocks) : IndentProp(blocks[i]) \in 0..3)
    /\ [][(lastOp'.op = "indentBlock" /\ lastOp'.id \in IdsIn(blocks)) =>
             IF IndentAt(blocks, lastOp'.id) = 3
             THEN blocks' = blocks
             ELSE IndentAt(blocks', lastOp'.id) = IndentAt(blocks, lastOp'.id) + 1]_vars
    /\ [][(lastOp'.op = "outdentBlock" /\ lastOp'.id \in IdsIn(blocks)) =>
             IF IndentAt(blocks, lastOp'.id) = 0
             THEN blocks' = blocks
             ELSE IndentAt(blocks', lastOp'.id) = IndentAt(blocks, lastOp'.id) - 1]_vars

\* indentBlock was called on a block that already was at indent 3
C9_Witness ==
    /\ lastOp.op = "indentBlock"
    /\ ~lastOp.changed
    /\ lastOp.id \in IdsIn(blocks)
    /\ IndentAt(blocks, lastOp.id) = 3

\* C10: history.past never holds more than maxHistorySize snapshots; when
\* saveToHistory runs with past already full, the oldest snapshot is
\* dropped, the new snapshot is the last element and the other snapshots
\* keep their order.
C10_PastBounded ==
    /\ [](Len(past) <= maxHistorySize)
    /\ [][(lastOp'.op \in SnapshotCommands /\ Len(past) = maxHistorySize) =>
             /\ Len(past') = maxHistorySize
             /\ past'[maxHistorySize].blocks = blocks
             /\ past'[maxHistorySize].activeBlockId = activeBlockId
             /\ \A k \in 1..(maxHistorySize - 1) : past'[k] = past[k + 1]]_vars

\* a snapshot was saved while past was full: the snapshot of the fresh
\* document is no longer on past
C10_Witness ==
    /\ lastOp.op = "convertBlockType"
    /\ Len(past) = maxHistorySize
    /\ past[1].blocks[1].type # PARAGRAPH

\* the model's commands that add, remove, reorder or retype blocks; the
\* toolbar divider, Ctrl+D and Enter-on-container go through addBlockAfter,
\* paste through insertBlocksAtPosition
StructuralCommands ==
    {"newParagraph", "insertDivider", "ctrlD", "paste", "duplicateBlock",
     "deleteBlock", "splitBlock", "mergeWithPreviousBlock", "convertBlockType",
     "moveBlock", "addBlockToColumn", "addBlockToTab", "deleteSelectedBlocks"}

\* C11: every structural mutation command (addBlockAfter, deleteBlock,
\* splitBlock, mergeWithPreviousBlock, convertBlockType, moveBlock,
\* duplicateBlock, addBlockToColumn, addBlockToTab, insertBlocksAtPosition,
\* deleteSelectedBlocks) that changes the document has pushed the
\* pre-mutation blocks onto past and left future empty.
C11_StructuralSnapshot ==
    [][(lastOp'.op \in StructuralCommands /\ blocks' # blocks) =>
          /\ Len(past') > 0
          /\ past'[Len(past')].blocks = blocks
          /\ future' = <<>>]_vars

\* the commands of C12 that take the id of the block they act on
AddressedCommands ==
    {"deleteBlock", "splitBlock", "mergeWithPreviousBlock", "convertBlockType",
     "moveBlock", "duplicateBlock", "indentBlock", "updateBlockContent",
     "addBlockToColumn", "addBlockToTab"}

\* C12: a command addressed to a block id that is not in the document
\* (deleteBlock, splitBlock, mergeWithPreviousBlock, convertBlockType,
\* moveBlock, duplicateBlock, indentBlock, updateBlockContent,
\* addBlockToColumn, addBlockToTab) leaves document.blocks, activeBlockId,
\* the selection and both history stacks unchanged.
C12_UnknownIdNoOp ==
    [][(lastOp'.op \in AddressedCommands /\ lastOp'.id \notin IdsIn(blocks)) =>
          /\ blocks' = blocks
          /\ activeBlockId' = activeBlockId
          /\ selectionLevel' = selectionLevel
          /\ selectedBlockIds' = selectedBlockIds
          /\ past' = past
          /\ future' = future]_vars

\* C13: after setActiveBlock(id), in whatever selection state it is
\* called, selectionLevel is 0, selectedBlockIds is empty and activeBlockId
\* is id; document.blocks and the history stacks are unchanged.
C13_SetActiveBlockEffect ==
    [][lastOp'.op = "setActiveBlock" =>
          /\ selectionLevel' = 0
          /\ selectedBlockIds' = <<>>
          /\ activeBlockId' = lastOp'.id
          /\ blocks' = blocks
          /\ past' = past
          /\ future' = future]_vars

\* setActiveBlock was called while all top-level blocks were selected
C13_Witness ==
    /\ lastOp.op = "setActiveBlock"
    /\ lastOp.level = 2
    /\ selectionLevel = 0
    /\ selectedBlockIds = <<>>
    /\ activeBlockId = lastOp.id

\* the elements of bs at the positions in keep, in their order
AtPositions(bs, keep) ==
    LET kth(k) == CHOOSE i \in keep : Cardinality({j \in keep : j <= i}) = k
    IN [k \in 1..Cardinality(keep) |-> bs[kth(k)]]

\* C14: deleteSelectedBlocks with a non-empty selectedBlockIds removes
\* exactly the blocks whose id is selected, keeps the others in their
\* order, inserts a single empty paragraph if nothing is left, and ends
\* with selectionLevel 0, selectedBlockIds empty and activeBlockId the id
\* of the first block of the result; with an empty selectedBlockIds it
\* changes nothing.
C14_DeleteSelectedEffect ==
    [][lastOp'.op = "deleteSelectedBlocks" =>
          IF Len(selectedBlockIds) = 0
          THEN /\ blocks' = blocks
               /\ activeBlockId' = activeBlockId
               /\ selectionLevel' = selectionLevel
               /\ selectedBlockIds' = selectedBlockIds
               /\ past' = past
               /\ future' = future
          ELSE LET keep == {i \in 1..Len(blocks) :
                              \A k \in 1..Len(selectedBlockIds) :
                                 selectedBlockIds[k] # blocks[i].id}
               IN /\ IF keep = {}
                     THEN /\ Len(blocks') = 1
                          /\ IsEmptyParagraph(blocks'[1])
                          /\ blocks'[1].id \notin IdsIn(blocks)
                     ELSE blocks' = AtPositions(blocks, keep)
                  /\ selectionLevel' = 0
                  /\ selectedBlockIds' = <<>>
                  /\ activeBlockId' = blocks'[1].id]_vars

\* one of several blocks was selected and deleted, the others stayed
C14_Witness ==
    /\ lastOp.op = "deleteSelectedBlocks"
    /\ lastOp.changed
    /\ lastOp.level = 1
    /\ Len(past) > 0
    /\ Len(past[Len(past)].blocks) >= 2
    /\ Len(blocks) = Len(past[Len(past)].blocks) - 1
    /\ IdsIn(blocks) \subseteq IdsIn(past[Len(past)].blocks)
    /\ activeBlockId = blocks[1].id

IsContainer(b) == b.type = COLUMNS \/ b.type = TABS

\* the column entries / tab entries of block c that list id
ColumnsListing(c, id) ==
    {k \in 1..Len(c.children.cols) : Includes(c.children.cols[k].blocks, id)}

TabsListing(c, id) ==
    {k \in 1..Len(c.children.tabs) : Includes(c.children.tabs[k].blocks, id)}

ListedIds(c) ==
    UNION ({{c.children.cols[k].blocks[n] :
                n \in 1..Len(c.children.cols[k].blocks)} :
              k \in 1..Len(c.children.cols)}
           \cup
           {{c.children.tabs[k].blocks[n] :
                n \in 1..Len(c.children.tabs[k].blocks)} :
              k \in 1..Len(c.children.tabs)})

\* C15: after any sequence of commands every block carrying a columnIndex
\* or parentTabId is listed in the children of exactly one container block
\* of the document, in the column/tab matching its back-reference, and
\* every id listed in a container's children is the id of a block of the
\* document.
C15_BackReferences ==
    /\ \A i \in 1..Len(blocks) :
          ~IsTopLevel(blocks[i]) =>
             LET b == blocks[i]
                 holders == {j \in 1..Len(blocks) :
                               /\ IsContainer(blocks[j])
                               /\ \/ ColumnsListing(blocks[j], b.id) # {}
                                  \/ TabsListing(blocks[j], b.id) # {}}
             IN /\ Cardinality(holders) = 1
                /\ \A j \in holders :
                      /\ b.columnIndex # Undefined =>
                            /\ blocks[j].type = COLUMNS
                            /\ \E k \in ColumnsListing(blocks[j], b.id) :
                                  blocks[j].children.cols[k].columnIndex
                                     = b.columnIndex
                      /\ b.parentTabId # Undefined =>
                            /\ blocks[j].type = TABS
                            /\ \E k \in TabsListing(blocks[j], b.id) :
                                  blocks[j].children.tabs[k].tabId
                                     = b.parentTabId
    /\ \A j \in 1..Len(blocks) :
          IsContainer(blocks[j]) => ListedIds(blocks[j]) \subseteq IdsIn(blocks)

\* C16: moveBlock(id, toIndex) for an existing block and
\* 0 <= toIndex < length keeps the same blocks and count, puts the moved
\* block at index toIndex of the result, keeps the relative order of the
\* other blocks and does not change activeBlockId; with toIndex equal to
\* the block's index the order is unchanged.
C16_MoveBlockEffect ==
    [][(/\ lastOp'.op = "moveBlock"
        /\ lastOp'.id \in IdsIn(blocks)
        /\ lastOp'.arg >= 0
        /\ lastOp'.arg < Len(blocks)) =>
          LET k == PosOf(blocks, lastOp'.id)
              t == lastOp'.arg + 1
          IN /\ Len(blocks') = Len(blocks)
             /\ blocks'[t] = blocks[k]
             /\ Without(blocks', t) = Without(blocks, k)
             /\ activeBlockId' = activeBlockId
             /\ k = t => blocks' = blocks]_vars

\* the first of three blocks was moved to the end
C16_Witness ==
    /\ lastOp.op = "moveBlock"
    /\ lastOp.arg = 2
    /\ lastOp.changed
    /\ Len(blocks) = 3
    /\ blocks[3].id = lastOp.id
    /\ Len(past) > 0
    /\ past[Len(past)].blocks[1].id = lastOp.id
    /\ past[Len(past)].blocks[2].id = blocks[1].id
    /\ past[Len(past)].blocks[3].id = blocks[2].id

\* the step is a call addBlockAfter(lastOp'.id, newBlock): Enter on a
\* container always calls it, the toolbar divider and Ctrl+D call it when
\* their guard lets them
CallsAddBlockAfter ==
    \/ lastOp'.op = "newParagraph"
    \/ lastOp'.op \in {"insertDivider", "ctrlD"} /\ blocks' # blocks

\* C17: addBlockAfter(afterId, newBlock) inserts newBlock directly after
\* the block with id afterId when that block exists and at the end when
\* afterId is null or unknown; the blocks that were there keep their
\* order, the count grows by one and activeBlockId becomes newBlock's id.
C17_AddBlockAfterEffect ==
    [][CallsAddBlockAfter =>
          LET k == PosOf(blocks, lastOp'.id)
              at == IF k = 0 THEN Len(blocks) + 1 ELSE k + 1
          IN /\ Len(blocks') = Len(blocks) + 1
             /\ Without(blocks', at) = blocks
             /\ activeBlockId' = blocks'[at].id
             /\ lastOp'.op = "newParagraph" =>
                   blocks'[at] = PlainParagraph(nextId)
             /\ lastOp'.op = "insertDivider" => blocks'[at].type = DIVIDER
             /\ lastOp'.op = "ctrlD" =>
                   /\ blocks'[at].id = nextId
                   /\ blocks'[at].content = blocks[k].content]_vars

\* a paragraph was inserted between two blocks
C17_Witness ==
    /\ lastOp.op = "newParagraph"
    /\ \E k \in 1..(Len(blocks) - 2) :
          /\ blocks[k].id = lastOp.id
          /\ blocks[k + 1].id = activeBlockId
          /\ blocks[k + 1].id = nextId - 1
          /\ IsEmptyParagraph(blocks[k + 1])

\* a paragraph was added with an afterId that no block has: it is the last
\* block
C17_WitnessUnknown ==
    /\ lastOp.op = "newParagraph"
    /\ lastOp.id # Null
    /\ lastOp.id \notin IdsIn(blocks)
    /\ Len(blocks) >= 2
    /\ blocks[Len(blocks)].id = activeBlockId

\* C18: mergeWithPreviousBlock(id) on a block at index > 0 removes that
\* block and replaces its predecessor by a block with the predecessor's
\* id, type and properties and the predecessor's content followed by the
\* removed block's content; the count drops by one, the other blocks are
\* unchanged and activeBlockId becomes the predecessor's id; on the block
\* at index 0 document.blocks and activeBlockId are unchanged.
C18_MergeEffect ==
    [][(lastOp'.op = "mergeWithPreviousBlock" /\ lastOp'.id \in IdsIn(blocks)) =>
          LET k == PosOf(blocks, lastOp'.id)
          IN IF k > 1
             THEN /\ Len(blocks') = Len(blocks) - 1
                  /\ blocks'[k - 1].id = blocks[k - 1].id
                  /\ blocks'[k - 1].type = blocks[k - 1].type
                  /\ blocks'[k - 1].properties = blocks[k - 1].properties
                  /\ blocks'[k - 1].content
                        = blocks[k - 1].content \o blocks[k].content
                  /\ \A i \in 1..(k - 2) : blocks'[i] = blocks[i]
                  /\ \A i \in (k + 1)..Len(blocks) : blocks'[i - 1] = blocks[i]
                  /\ activeBlockId' = blocks[k - 1].id
             ELSE /\ blocks' = blocks
                  /\ activeBlockId' = activeBlockId]_vars

\* "a" and "b" were merged into "ab"
C18_Witness ==
    /\ lastOp.op = "mergeWithPreviousBlock"
    /\ lastOp.changed
    /\ Len(past) > 0
    /\ \E k \in 1..Len(blocks) :
          /\ blocks[k].id = activeBlockId
          /\ blocks[k].content = <<"a", "b">>
          /\ Len(past[Len(past)].blocks) = Len(blocks) + 1
          /\ past[Len(past)].blocks[k].content = <<"a">>
          /\ past[Len(past)].blocks[k + 1].content = <<"b">>
          /\ past[Len(past)].blocks[k + 1].id = lastOp.id

\* C19: convertBlockType(id, newType, newContent) keeps the block's id and
\* position, keeps its content unless newContent is given (then content is
\* newContent) and replaces properties by newType's defaults; when newType
\* is tabs the properties hold exactly one tab with a newly generated id
\* and activeTabId is that tab's id.
C19_ConvertEffect ==
    [][(lastOp'.op = "convertBlockType" /\ lastOp'.id \in IdsIn(blocks)) =>
          LET k == PosOf(blocks, lastOp'.id)
              b == blocks[k]
              c == blocks'[k]
          IN /\ Len(blocks') = Len(blocks)
             /\ \A i \in 1..Len(blocks) : i # k => blocks'[i] = blocks[i]
             /\ c.id = b.id
             /\ c.content = IF lastOp'.arg = Null THEN b.content
                            ELSE ContentChoices[lastOp'.arg]
             /\ IF c.type = TABS
                THEN /\ DOMAIN c.properties = {"tabs", "activeTabId"}
                     /\ Len(c.properties.tabs) = 1
                     /\ c.properties.tabs[1] = nextId
                     /\ nextId' > nextId
                     /\ \A i \in 1..Len(blocks) :
                           c.properties.tabs[1] \notin TabIdsOf(blocks[i])
                     /\ c.properties.activeTabId = c.properties.tabs[1]
                ELSE c.properties = DEFAULT_BLOCK_PROPERTIES(c.type)]_vars

\* a block holding "ab" was converted to tabs with the new content ""
C19_Witness ==
    /\ lastOp.op = "convertBlockType"
    /\ lastOp.arg = 1
    /\ Len(past) > 0
    /\ \E k \in 1..Len(blocks) :
          /\ blocks[k].id = lastOp.id
          /\ blocks[k].type = TABS
          /\ blocks[k].content = NoContent
          /\ Len(past[Len(past)].blocks) = Len(blocks)
          /\ past[Len(past)].blocks[k].content = Text
          /\ blocks[k].properties.activeTabId = nextId - 1

ColumnEntries(cols, columnIndex) ==
    {n \in 1..Len(cols) : cols[n].columnIndex = columnIndex}

TabEntries(tabs, tabId) ==
    {n \in 1..Len(tabs) : tabs[n].tabId = tabId}

\* the step added one block with id nextId at the end of blocks, changed
\* no block but the container at position k, and made the new block active
AddedNested(k) ==
    /\ Len(blocks') = Len(blocks) + 1
    /\ \A i \in 1..Len(blocks) : i # k => blocks'[i] = blocks[i]
    /\ blocks'[Len(blocks) + 1].id = nextId
    /\ nextId \notin IdsIn(blocks)
    /\ activeBlockId' = nextId
    /\ blocks'[k].id = blocks[k].id
    /\ blocks'[k].type = blocks[k].type

\* C20: addBlockToColumn(containerId, columnIndex, data) on a columns
\* container adds exactly one block with a fresh id at the end of
\* document.blocks, tagged with columnIndex, appends its id to that
\* column's blocks list (creating the entry when absent, never a second
\* entry for the same columnIndex) and makes it active; when the container
\* is missing or not of type columns, document.blocks and activeBlockId are
\* unchanged.  addBlockToTab does the same for a tabs container with
\* children[tabId] and parentTabId.
C20_AddNestedEffect ==
    /\ [][lastOp'.op = "addBlockToColumn" =>
            LET k == PosOf(blocks, lastOp'.id)
                ci == lastOp'.arg
            IN IF k > 0 /\ blocks[k].type = COLUMNS
               THEN LET old == blocks[k].children.cols
                        new == blocks'[k].children.cols
                    IN /\ AddedNested(k)
                       /\ blocks'[Len(blocks) + 1].columnIndex = ci
                       /\ Cardinality(ColumnEntries(new, ci)) = 1
                       /\ Len(new) = Len(old) +
                             (IF ColumnEntries(old, ci) = {} THEN 1 ELSE 0)
                       /\ \A n \in ColumnEntries(new, ci) :
                             new[n].blocks =
                                (IF ColumnEntries(old, ci) = {} THEN <<>>
                                 ELSE old[n].blocks) \o <<nextId>>
                       /\ \A n \in 1..Len(old) :
                             old[n].columnIndex # ci => new[n] = old[n]
               ELSE /\ blocks' = blocks
                    /\ activeBlockId' = activeBlockId]_vars
    /\ [][lastOp'.op = "addBlockToTab" =>
            LET k == PosOf(blocks, lastOp'.id)
                tabId == lastOp'.arg
            IN IF k > 0 /\ blocks[k].type = TABS
               THEN LET old == blocks[k].children.tabs
                        new == blocks'[k].children.tabs
                    IN /\ AddedNested(k)
                       /\ blocks'[Len(blocks) + 1].parentTabId = tabId
                       /\ Cardinality(TabEntries(new, tabId)) = 1
                       /\ Len(new) = Len(old) +
                             (IF TabEntries(old, tabId) = {} THEN 1 ELSE 0)
                       /\ \A n \in TabEntries(new, tabId) :
                             new[n].blocks =
                                (IF TabEntries(old, tabId) = {} THEN <<>>
                                 ELSE old[n].blocks) \o <<nextId>>
                       /\ \A n \in 1..Len(old) :
                             old[n].tabId # tabId => new[n] = old[n]
               ELSE /\ blocks' = blocks
                    /\ activeBlockId' = activeBlockId]_vars

\* the positions of the writes a debounce timer issued for version v
TimerWrites(v) ==
    {i \in 1..Len(autoSave.writes) :
        autoSave.writes[i].by = "timer" /\ autoSave.writes[i].doc = v}

C22_FlushOnHide ==
    [][(autoSave'.lastEvent \in {"hidden", "unload"} /\ autoSave.timers # {}) =>
          /\ Len(autoSave'.writes) = Len(autoSave.writes) + 1
          /\ autoSave'.writes[Len(autoSave'.writes)].doc = autoSave.docVersion
          /\ autoSave'.writes[Len(autoSave'.writes)].at = autoSave.clock]_vars

\* the tokens marked makes of the text that was handed to parseMarkdown
InputTokens ==
    IF md.input[1].typeof = "string" THEN lexer(md.input[1].lines) ELSE <<>>

Heading1Tokens ==
    {i \in 1..Len(InputTokens) :
        InputTokens[i].type = "heading" /\ InputTokens[i].depth = 1}

\* the blocks a token stands for when it is not taken as the title
BlocksOfToken(token) ==
    CASE token.type = "space" -> 0
      [] token.type = "list" -> Len(token.items)
      [] OTHER -> 1

RECURSIVE BlocksOfTokens(_, _)
BlocksOfTokens(tokens, skip) ==
    IF tokens = <<>> THEN 0
    ELSE (IF skip = 1 THEN 0 ELSE BlocksOfToken(Head(tokens)))
         + BlocksOfTokens(Tail(tokens), skip - 1)

\* C23: parseMarkdown, as a map from the token sequence to (title, blocks):
\* the first depth-1 heading sets the title and gives no block, every later
\* depth-1 heading gives a heading1 block, without a depth-1 heading the
\* title is the default one, and the result has at least one block: a single
\* empty paragraph when no token gives a block or the input is empty or not a
\* string.
C23_ParseTitleAndBlocks ==
    (md.parsed # <<>> /\ md.exported = <<>>) =>
        LET out == md.parsed[1]
            first == IF Heading1Tokens = {} THEN 0 ELSE MinOf(Heading1Tokens)
            expected == BlocksOfTokens(InputTokens, first)
            heading1s == {j \in 1..Len(out.blocks) :
                             out.blocks[j].type = HEADING_1}
        IN  /\ out.title = IF first = 0 THEN ImportedDocument
                           ELSE InputTokens[first].text
            /\ Cardinality(heading1s) = Cardinality(Heading1Tokens \ {first})
            /\ Len(out.blocks) >= 1
            /\ expected > 0 => Len(out.blocks) = expected
            /\ expected = 0 =>
                  /\ Len(out.blocks) = 1
                  /\ out.blocks[1].type = PARAGRAPH
                  /\ out.blocks[1].content = <<>>

\* a text with two depth-1 headings has been parsed: the first is the title,
\* the second a heading1 block
C23_Witness ==
    /\ md.parsed # <<>>
    /\ md.exported = <<>>
    /\ Cardinality(Heading1Tokens) >= 2
    /\ md.parsed[1].title = <<"a">>
    /\ \E j \in 1..Len(md.parsed[1].blocks) :
          /\ md.parsed[1].blocks[j].type = HEADING_1
          /\ md.parsed[1].blocks[j].content = <<"b">>

\* C24: for a text of headings, paragraphs, quotes and dividers, exporting
\* what was imported is stable from the second pass on:
\* serializeDocument(parseMarkdown(serializeDocument(parseMarkdown(md))))
\* is serializeDocument(parseMarkdown(md)).
C24_RoundTripStable ==
    Len(md.exported) = 2 => md.exported[2] = md.exported[1]

\* C25: activeBlockId is null or the id of a block of the document, as long
\* as setActiveBlock is only called with the id of a block and every block
\* handed to addBlockAfter or insertBlocksAtPosition carries an id; this
\* holds after deleteBlock, deleteSelectedBlocks, mergeWithPreviousBlock,
\* undo, redo and loadDocument too.
C25_ActiveBlockPresent ==
    activeBlockId = Null \/ activeBlockId \in IdsIn(blocks)

\* a stored document of two blocks was loaded while a block of the document
\* before it was active: the active block is now the first block loaded
C25_Witness ==
    /\ lastOp.op = "loadDocument"
    /\ Len(blocks) = 2
    /\ activeBlockId = blocks[1].id
    /\ past # <<>>
    /\ past[Len(past)].activeBlockId # Null

\* C26: every id in selectedBlockIds is the id of a block of the document,
\* also after deleteBlock, mergeWithPreviousBlock, undo, redo, loadDocument
\* and newDocument.
C26_SelectionPresent ==
    \A i \in 1..Len(selectedBlockIds) : selectedBlockIds[i] \in IdsIn(blocks)

\* C27: the document always has at least one top-level block (a block with
\* neither columnIndex nor parentTabId), also after every top-level block, or
\* the only top-level container, was deleted while nested children remain.
C27_TopLevelBlockPresent ==
    \E i \in 1..Len(blocks) : IsTopLevel(blocks[i])

\* C28: once loadDocument(d) or newDocument() has run, no undo or redo
\* replaces document.blocks with a snapshot taken while another document was
\* loaded: every snapshot on history.past and history.future belongs to the
\* current document.
C28_HistoryOfCurrentDocument ==
    /\ [](/\ \A k \in 1..Len(past) : past[k].documentId = documentId
          /\ \A k \in 1..Len(future) : future[k].documentId = documentId)
    /\ [][(lastOp'.op \in {"undo", "redo"} /\ blocks' # blocks) =>
             \/ lastOp'.op = "undo" /\ past[Len(past)].documentId = documentId
             \/ lastOp'.op = "redo" /\ future[1].documentId = documentId]_vars

\* C29: history.past and history.future together never hold more than
\* maxHistorySize (50) snapshots.
C29_HistoryBounded == Len(past) + Len(future) <= maxHistorySize

\* past was full and two snapshots were undone: the two stacks hold 50
\* snapshots together
C29_Witness ==
    /\ lastOp.op = "undo"
    /\ Len(future) >= 2
    /\ Len(past) + Len(future) = maxHistorySize

====
